---- MODULE Spec2Model ----
(***************************************************************************)
(* kismet_interactive_diff.py: the interactive conversion front end, the   *)
(* inventory builder (parse_kismet_log / _process_device) and the three    *)
(* report functions of the diff engine.                                    *)
(***************************************************************************)
EXTENDS Integers, Sequences, FiniteSets, TLC

VARIABLES
    pc,               \* position in main() and in the function it is running
    side,             \* which argument the running call works on
    exit_code,        \* <<status>> once the process has exited, <<>> while it runs
    tool,             \* shutil.which('kismet_log_to_json') finds the tool
    kismet_file,      \* args.baseline_file / args.comparison_file
    fs,               \* the JSON files that exist on disk
    json_file,        \* run_conversion_prompt's local json_file
    run_command,      \* run_conversion_prompt's local run_command
    overwrite,        \* run_conversion_prompt's local overwrite
    confirm,          \* run_conversion_prompt's local confirm
    typed,            \* what the user typed at each prompt, per call
    executed,         \* the outcome of subprocess.run, per call
    json_path,        \* baseline_json_path / comparison_json_path
    aps,              \* parse_kismet_log's local aps
    clients,          \* parse_kismet_log's local clients
    probed_ssid_map,  \* parse_kismet_log's local probed_ssid_map
    log,              \* the lines read so far from each JSON file
    parsed,           \* what parse_kismet_log returned for each file
    output            \* the report sections printed so far

vars == <<pc, side, exit_code, tool, kismet_file, fs, json_file, run_command,
          overwrite, confirm, typed, executed, json_path, aps, clients,
          probed_ssid_map, log, parsed, output>>

(***************************************************************************)
(* Bounds of the model.                                                    *)
(***************************************************************************)
\* lines per JSON file in the full program (Spec)
MaxMainLines == 1
\* lines of the JSON file in the inventory builder (SpecBuild)
MaxLines == 3
\* lines per JSON file in the comparison (SpecDiff)
MaxDiffLines == 2

(***************************************************************************)
(* Python values.  A str is the sequence of its pieces, so that slicing,   *)
(* strip(), lower(), endswith() and the substring test are computed.       *)
(***************************************************************************)
None == [t |-> "none", v |-> <<>>]
Str(s) == [t |-> "str", v |-> s]
Num(digits) == [t |-> "int", v |-> digits]
List == [t |-> "list", v |-> <<>>]
Dict(f) == [t |-> "dict", v |-> f]

\* str(x): a str is itself, a number its digits, None the text 'None'
str(x) ==
    IF x.t = "str" THEN x
    ELSE IF x.t = "int" THEN Str(x.v)
    ELSE IF x.t = "none" THEN Str(<<"None">>)
    ELSE Str(<<"<", x.t, ">">>)

\* Python truthiness of the values a record holds
Truthy(x) ==
    IF x.t = "none" THEN FALSE
    ELSE IF x.t = "int" THEN x.v # <<"0">>
    ELSE IF x.t = "dict" THEN DOMAIN x.v # {}
    ELSE x.v # <<>>

\* d.get(key, default) of a dict
Get(d, key, default) == IF key \in DOMAIN d.v THEN d.v[key] ELSE default

\* sub in s, for a str s
Contains(s, sub) == s.t = "str" /\ \E i \in DOMAIN s.v : s.v[i] = sub

Sides == {"baseline", "comparison"}
EmptyDict == <<>>

\* dict.setdefault(key, value) in place of d[key] = value: the first entry stays
StoreKeepsFirst(d, key, value) ==
    [k \in DOMAIN d \cup {key} |-> IF k \in DOMAIN d THEN d[k] ELSE value]

\* d[key] = value of a Python dict
Store(d, key, value) ==
    [k \in DOMAIN d \cup {key} |-> IF k = key THEN value ELSE d[k]]

(***************************************************************************)
(* _process_device(device, aps, clients, probed_ssid_map): the three       *)
(* collections after the call.                                             *)
(***************************************************************************)
WIFI_AP == Str(<<"Wi-Fi", " AP">>)

\* lines 81-83: for probe in probes: if probe: probed_ssid_map[probe].add(mac)
AddProbes(m, probes, mac) ==
    [n \in DOMAIN m \cup {p \in probes : p # ""} |->
        IF n \in probes /\ n # ""
        THEN (IF n \in DOMAIN m THEN m[n] ELSE {}) \cup {mac}
        ELSE m[n]]

\* lines 74-77: the entry stored for an access point
ApEntry(device) ==
    [ssid    |-> Get(device, "kismet_device_base_name", Str(<<"N/A">>)),
     channel |-> Get(device, "kismet_common_channel", Str(<<"N/A">>)),
     crypt   |-> str(Get(device, "dot11_network_crypt_set", Str(<<"Unknown">>)))]

\* line 79: set(device.get('dot11_client_probed_ssid_map', {}).keys())
ProbesOf(device) ==
    DOMAIN Get(device, "dot11_client_probed_ssid_map", Dict(EmptyDict)).v

\* lines 68-83 with 'if' for the 'elif' of line 78 and without its second test:
\* 'Wi-Fi' is in 'Wi-Fi AP', so an access point is stored as a client too
_process_device_ap_as_client(device, a, c, m) ==
    LET mac == Get(device, "kismet_device_base_macaddr", None)
        dev_type == Get(device, "kismet_device_base_type", None)
    IN  IF ~Truthy(mac) \/ ~Truthy(dev_type)
        THEN [aps |-> a, clients |-> c, probes |-> m]
        ELSE [aps |-> IF dev_type = WIFI_AP THEN Store(a, mac, ApEntry(device)) ELSE a,
              clients |-> IF Contains(dev_type, "Wi-Fi")
                          THEN Store(c, mac, [probed_ssids |-> ProbesOf(device)])
                          ELSE c,
              probes |-> IF Contains(dev_type, "Wi-Fi")
                         THEN AddProbes(m, ProbesOf(device), mac)
                         ELSE m]

_process_device(device, a, c, m) ==
    LET mac == Get(device, "kismet_device_base_macaddr", None)
        dev_type == Get(device, "kismet_device_base_type", None)
    IN  IF ~Truthy(mac) \/ ~Truthy(dev_type)
        THEN [aps |-> a, clients |-> c, probes |-> m]
        ELSE IF dev_type = WIFI_AP
        THEN [aps |-> Store(a, mac, ApEntry(device)), clients |-> c, probes |-> m]
        ELSE IF Contains(dev_type, "Wi-Fi") /\ dev_type # WIFI_AP
        THEN [aps |-> a,
              clients |-> Store(c, mac, [probed_ssids |-> ProbesOf(device)]),
              probes |-> AddProbes(m, ProbesOf(device), mac)]
        ELSE [aps |-> a, clients |-> c, probes |-> m]

(***************************************************************************)
(* Lines of a JSON-lines file: text that json.loads rejects, or the value  *)
(* it decodes to.                                                          *)
(***************************************************************************)
NotJson == [json |-> FALSE, val |-> None]
Json(val) == [json |-> TRUE, val |-> val]

\* json.loads(line): ok is FALSE where it raises JSONDecodeError
json_loads(line) == [ok |-> line.json, val |-> line.val]

\* device.get exists only on a mapping; on any other decoded value the call
\* raises AttributeError, which parse_kismet_log does not catch
HasGet(val) == val.t = "dict"

(***************************************************************************)
(* The interactive front end.                                              *)
(***************************************************************************)
Whitespace == {" ", "\t"}

\* str.lower(), piece by piece
lower(s) ==
    [i \in DOMAIN s |-> IF s[i] = "Y" THEN "y" ELSE IF s[i] = "N" THEN "n" ELSE s[i]]

RECURSIVE lstrip(_)
lstrip(s) ==
    IF s # <<>> /\ Head(s) \in Whitespace THEN lstrip(Tail(s)) ELSE s

RECURSIVE rstrip(_)
rstrip(s) ==
    IF s # <<>> /\ s[Len(s)] \in Whitespace
    THEN rstrip(SubSeq(s, 1, Len(s) - 1))
    ELSE s

\* str.strip()
strip(s) == rstrip(lstrip(s))

\* input(...).lower().strip()
Answer(text) == strip(lower(text))

\* answer == '' or 'y': the non-empty literal is true whatever was typed
YesOrLiteral(answer) == answer = <<>> \/ Truthy(Str(<<"y">>))

\* lines 40 and 51: answer == '' or answer == 'y'
Yes(answer) == answer = <<>> \/ answer = <<"y">>

\* kismet_file.endswith('.kismet')
endswith_kismet(f) == f # <<>> /\ f[Len(f)] = ".kismet"

\* kismet_file.replace('.kismet', '.json')
replace_kismet(f) == [i \in DOMAIN f |-> IF f[i] = ".kismet" THEN ".json" ELSE f[i]]

NoAnswer == <<"<not asked>">>
NotRun == "not run"

\* sys.exit(code)
Exit(code) == pc' = "exit" /\ exit_code' = <<code>>

\* lines 18-24
check_command_exists ==
    /\ pc = "check_command_exists"
    /\ IF tool
       THEN pc' = "run_conversion_prompt" /\ exit_code' = exit_code
       ELSE Exit(1)
    /\ UNCHANGED <<side, tool, kismet_file, fs, json_file, run_command, overwrite,
                   confirm, typed, executed, json_path, aps, clients,
                   probed_ssid_map, log, parsed, output>>

\* lines 31-38: the suffix test, json_file, run_command and the existence test
conversion_begin ==
    /\ pc = "run_conversion_prompt"
    /\ IF ~endswith_kismet(kismet_file[side])
       THEN Exit(1) /\ UNCHANGED <<json_file, run_command>>
       ELSE /\ json_file' = replace_kismet(kismet_file[side])
            /\ run_command' = TRUE
            /\ pc' = IF json_file' \in fs THEN "ask_use_existing" ELSE "if_run_command"
            /\ exit_code' = exit_code
    /\ UNCHANGED <<side, tool, kismet_file, fs, overwrite, confirm, typed, executed,
                   json_path, aps, clients, probed_ssid_map, log, parsed, output>>

\* lines 39-42: "Output file already exists. Use it?"
ask_use_existing(text) ==
    /\ pc = "ask_use_existing"
    /\ overwrite' = Answer(text)
    /\ typed' = [typed EXCEPT ![side].use = text]
    /\ run_command' = IF Yes(overwrite') THEN FALSE ELSE run_command
    /\ pc' = "if_run_command"
    /\ UNCHANGED <<side, exit_code, tool, kismet_file, fs, json_file, confirm,
                   executed, json_path, aps, clients, probed_ssid_map, log, parsed,
                   output>>

\* lines 44-49: "Do you want to proceed?"
ask_proceed(text) ==
    /\ pc = "if_run_command"
    /\ run_command
    /\ confirm' = Answer(text)
    /\ typed' = [typed EXCEPT ![side].proceed = text]
    /\ pc' = "if_confirm"
    /\ UNCHANGED <<side, exit_code, tool, kismet_file, fs, json_file, run_command,
                   overwrite, executed, json_path, aps, clients, probed_ssid_map,
                   log, parsed, output>>

\* lines 51-60: subprocess.run(command, check=True); the tool exits 0 (having
\* written json_file or not) or exits non-zero (CalledProcessError)
run_conversion(result, written) ==
    /\ pc = "if_confirm"
    /\ Yes(confirm)
    /\ executed' = [executed EXCEPT ![side] = result]
    /\ fs' = IF written THEN fs \cup {json_file} ELSE fs
    /\ IF result = "ok"
       THEN pc' = "return_json_file" /\ exit_code' = exit_code
       ELSE Exit(1)
    /\ UNCHANGED <<side, tool, kismet_file, json_file, run_command, overwrite,
                   confirm, typed, json_path, aps, clients, probed_ssid_map, log,
                   parsed, output>>

\* the exit status of lines 61-63, "Conversion cancelled by user. Exiting."
CancelledStatus == 0

\* lines 61-63
conversion_cancelled ==
    /\ pc = "if_confirm"
    /\ ~Yes(confirm)
    /\ Exit(CancelledStatus)
    /\ UNCHANGED <<side, tool, kismet_file, fs, json_file, run_command, overwrite,
                   confirm, typed, executed, json_path, aps, clients,
                   probed_ssid_map, log, parsed, output>>

\* line 65, and main's lines 199-203: the next call
return_json_file ==
    /\ \/ pc = "return_json_file"
       \/ pc = "if_run_command" /\ ~run_command
    /\ json_path' = Store(json_path, side, json_file)
    /\ IF side = "baseline"
       THEN pc' = "run_conversion_prompt" /\ side' = "comparison"
       ELSE pc' = "parse_kismet_log" /\ side' = "baseline"
    /\ overwrite' = NoAnswer /\ confirm' = NoAnswer
    /\ UNCHANGED <<exit_code, tool, kismet_file, fs, json_file, run_command,
                   typed, executed, aps, clients, probed_ssid_map, log, parsed,
                   output>>

(***************************************************************************)
(* parse_kismet_log(file_path)                                             *)
(***************************************************************************)
\* main's lines 203-206: what follows the return of parse_kismet_log
after_parse(s) ==
    IF s = "baseline" THEN "parse_kismet_log" ELSE "report_new_and_missing"

\* a handler of FileNotFoundError that lacks line 102 falls through to the
\* return of line 103
FileNotFoundReturns ==
    /\ parsed' = Store(parsed, side,
                       [aps |-> EmptyDict, clients |-> EmptyDict, probes |-> EmptyDict])
    /\ pc' = after_parse(side)
    /\ side' = "comparison"
    /\ exit_code' = exit_code

\* lines 100-102: except FileNotFoundError
FileNotFound == Exit(1) /\ UNCHANGED <<parsed, side>>

\* lines 89-93: the empty collections, and open(file_path)
parse_open ==
    /\ pc = "parse_kismet_log"
    /\ aps' = EmptyDict /\ clients' = EmptyDict /\ probed_ssid_map' = EmptyDict
    /\ IF json_path[side] \in fs
       THEN pc' = "for_line" /\ UNCHANGED <<exit_code, parsed, side>>
       ELSE FileNotFound
    /\ UNCHANGED <<tool, kismet_file, fs, json_file, run_command, overwrite,
                   confirm, typed, executed, json_path, log, output>>

\* lines 94-99: one turn of the loop.  An exception other than
\* JSONDecodeError leaves main with a traceback and exit status 1.
read_line(line, max) ==
    /\ pc = "for_line"
    /\ Len(log[side]) < max
    /\ log' = [log EXCEPT ![side] = Append(@, line)]
    /\ LET device == json_loads(line) IN
       IF ~device.ok
       THEN UNCHANGED <<aps, clients, probed_ssid_map, pc, exit_code>>
       ELSE IF ~HasGet(device.val)
       THEN Exit(1) /\ UNCHANGED <<aps, clients, probed_ssid_map>>
       ELSE LET r == _process_device(device.val, aps, clients, probed_ssid_map) IN
            /\ aps' = r.aps
            /\ clients' = r.clients
            /\ probed_ssid_map' = r.probes
            /\ UNCHANGED <<pc, exit_code>>
    /\ UNCHANGED <<side, tool, kismet_file, fs, json_file, run_command, overwrite,
                   confirm, typed, executed, json_path, parsed, output>>

\* line 103, at the end of the file
end_of_file ==
    /\ pc = "for_line"
    /\ parsed' = Store(parsed, side,
                       [aps |-> aps, clients |-> clients, probes |-> probed_ssid_map])
    /\ pc' = after_parse(side)
    /\ side' = "comparison"
    /\ UNCHANGED <<exit_code, tool, kismet_file, fs, json_file, run_command,
                   overwrite, confirm, typed, executed, json_path, aps, clients,
                   probed_ssid_map, log, output>>

(***************************************************************************)
(* The diff engine.                                                        *)
(***************************************************************************)
\* line 116 without its subtraction
missing_aps_all(baseline_aps, comp_aps) == DOMAIN baseline_aps

\* lines 115-118
new_aps(baseline_aps, comp_aps) == DOMAIN comp_aps \ DOMAIN baseline_aps
missing_aps(baseline_aps, comp_aps) == DOMAIN baseline_aps \ DOMAIN comp_aps
new_clients(baseline_clients, comp_clients) ==
    DOMAIN comp_clients \ DOMAIN baseline_clients
missing_clients(baseline_clients, comp_clients) ==
    DOMAIN baseline_clients \ DOMAIN comp_clients

\* lines 114-134: each access point is printed with its SSID
report_new_and_missing ==
    /\ pc = "report_new_and_missing"
    /\ LET b == parsed["baseline"]
           c == parsed["comparison"]
       IN output' = Append(output,
            [section |-> "new_and_missing",
             new_aps |-> [m \in new_aps(b.aps, c.aps) |-> c.aps[m].ssid],
             missing_aps |-> [m \in missing_aps(b.aps, c.aps) |-> b.aps[m].ssid],
             new_clients |-> new_clients(b.clients, c.clients),
             missing_clients |-> missing_clients(b.clients, c.clients)])
    /\ pc' = "report_environmental_changes"
    /\ UNCHANGED <<side, exit_code, tool, kismet_file, fs, json_file, run_command,
                   overwrite, confirm, typed, executed, json_path, aps, clients,
                   probed_ssid_map, log, parsed>>

\* lines 154-162 with the channels compared as text, str(a) != str(b)
_get_ap_changes_as_text(base_ap, comp_ap) ==
    (IF base_ap.ssid # comp_ap.ssid
     THEN <<[field |-> "ssid", old |-> base_ap.ssid, new |-> comp_ap.ssid]>>
     ELSE <<>>)
    \o (IF str(base_ap.channel) # str(comp_ap.channel)
        THEN <<[field |-> "channel", old |-> base_ap.channel, new |-> comp_ap.channel]>>
        ELSE <<>>)
    \o (IF base_ap.crypt # comp_ap.crypt
        THEN <<[field |-> "crypt", old |-> base_ap.crypt, new |-> comp_ap.crypt]>>
        ELSE <<>>)

\* lines 154-162
_get_ap_changes(base_ap, comp_ap) ==
    (IF base_ap.ssid # comp_ap.ssid
     THEN <<[field |-> "ssid", old |-> base_ap.ssid, new |-> comp_ap.ssid]>>
     ELSE <<>>)
    \o (IF base_ap.channel # comp_ap.channel
        THEN <<[field |-> "channel", old |-> base_ap.channel, new |-> comp_ap.channel]>>
        ELSE <<>>)
    \o (IF base_ap.crypt # comp_ap.crypt
        THEN <<[field |-> "crypt", old |-> base_ap.crypt, new |-> comp_ap.crypt]>>
        ELSE <<>>)

\* lines 142-152: the access points listed, each with its changes
_report_ap_changes(baseline_aps, comp_aps) ==
    LET common_aps == DOMAIN baseline_aps \cap DOMAIN comp_aps
    IN  [mac \in {m \in common_aps :
                    _get_ap_changes(baseline_aps[m], comp_aps[m]) # <<>>} |->
            [ssid |-> baseline_aps[mac].ssid,
             changes |-> _get_ap_changes(baseline_aps[mac], comp_aps[mac])]]

\* lines 177-180
_get_client_probe_changes(base_client, comp_client) ==
    [added_probes |-> comp_client.probed_ssids \ base_client.probed_ssids,
     removed_probes |-> base_client.probed_ssids \ comp_client.probed_ssids]

\* lines 164-175
_report_client_changes(baseline_clients, comp_clients) ==
    LET common_clients == DOMAIN baseline_clients \cap DOMAIN comp_clients
        ch(m) == _get_client_probe_changes(baseline_clients[m], comp_clients[m])
    IN  [mac \in {m \in common_clients :
                    ch(m).added_probes # {} \/ ch(m).removed_probes # {}} |-> ch(mac)]

\* lines 136-140
report_environmental_changes ==
    /\ pc = "report_environmental_changes"
    /\ LET b == parsed["baseline"]
           c == parsed["comparison"]
       IN output' = Append(output,
            [section |-> "environmental_changes",
             ap_changes |-> _report_ap_changes(b.aps, c.aps),
             client_changes |-> _report_client_changes(b.clients, c.clients)])
    /\ pc' = "report_probed_ssid_analysis"
    /\ UNCHANGED <<side, exit_code, tool, kismet_file, fs, json_file, run_command,
                   overwrite, confirm, typed, executed, json_path, aps, clients,
                   probed_ssid_map, log, parsed>>

\* lines 185-186
newly_probed_ssids(baseline_probes, comp_probes) ==
    DOMAIN comp_probes \ DOMAIN baseline_probes
no_longer_probed_ssids(baseline_probes, comp_probes) ==
    DOMAIN baseline_probes \ DOMAIN comp_probes

\* lines 182-194, and the return of main: exit status 0
report_probed_ssid_analysis ==
    /\ pc = "report_probed_ssid_analysis"
    /\ LET b == parsed["baseline"].probes
           c == parsed["comparison"].probes
       IN output' = Append(output,
            [section |-> "probed_ssid_analysis",
             newly_probed |-> [n \in newly_probed_ssids(b, c) |-> c[n]],
             no_longer_probed |-> no_longer_probed_ssids(b, c)])
    /\ pc' = "done"
    /\ exit_code' = <<0>>
    /\ UNCHANGED <<side, tool, kismet_file, fs, json_file, run_command, overwrite,
                   confirm, typed, executed, json_path, aps, clients,
                   probed_ssid_map, log, parsed>>

(***************************************************************************)
(* Inputs: the command line, the disk, what the user types, the lines of   *)
(* the two JSON files.                                                     *)
(***************************************************************************)
BaselineArgs == {<<"a", ".kismet">>, <<"a", ".json">>}
ComparisonArgs == {<<"b", ".kismet">>, <<"b", ".txt">>}
JsonFiles == {<<"a", ".json">>, <<"b", ".json">>}
Typed == {<<>>, <<"y">>, <<" ", "Y", "\t">>, <<"n">>, <<"y", "e", "s">>}
Results == {"ok", "failed"}

AA == Str(<<"AA:AA">>)
BB == Str(<<"BB:BB">>)
MACs == {AA, BB}
Names == {"", "Guest", "Home"}
WIFI_CLIENT == Str(<<"Wi-Fi", " Client">>)
WIFI_DEVICE == Str(<<"Wi-Fi", " Device">>)
BLUETOOTH == Str(<<"Bluetooth">>)

Device(mac, dev_type, fields) ==
    Json(Dict(("kismet_device_base_macaddr" :> mac)
              @@ ("kismet_device_base_type" :> dev_type) @@ fields))
ApFields(ssid, channel, crypt) ==
    ("kismet_device_base_name" :> ssid) @@ ("kismet_common_channel" :> channel)
    @@ ("dot11_network_crypt_set" :> crypt)
Probed(names) ==
    "dot11_client_probed_ssid_map" :> Dict([n \in names |-> None])

Cafe == Str(<<"Cafe">>)
Cafe2 == Str(<<"Cafe2">>)
WPA2 == Str(<<"WPA2">>)

\* the lines that are not records of a device
MalformedLines ==
    { NotJson,
      Json(List),
      Json(Dict("kismet_device_base_type" :> WIFI_AP)),
      Json(Dict(("kismet_device_base_macaddr" :> AA) @@ Probed({"Guest"}))) }

ApLines ==
    { Device(AA, WIFI_AP, ApFields(Cafe, Str(<<"6">>), WPA2)),
      Device(AA, WIFI_AP, ApFields(Cafe2, Num(<<"6">>), Num(<<"3">>))),
      Device(AA, WIFI_AP, EmptyDict),
      Device(BB, WIFI_AP, "kismet_device_base_name" :> Cafe) }

ClientLines ==
    { Device(AA, WIFI_CLIENT, Probed({"Guest"})),
      Device(AA, WIFI_CLIENT, Probed({"", "Home"})),
      Device(AA, WIFI_DEVICE, EmptyDict),
      Device(BB, WIFI_CLIENT, Probed({"Guest", "Home"})) }

\* the lines of the inventory builder's file
BuildLines ==
    MalformedLines \cup ApLines \cup ClientLines
    \cup {Device(AA, BLUETOOTH, Probed({"Guest"}))}

\* the lines of the two files compared
DiffLines ==
    { Device(AA, WIFI_AP, ApFields(Cafe, Str(<<"6">>), WPA2)),
      Device(AA, WIFI_AP, ApFields(Cafe2, Str(<<"6">>), WPA2)),
      Device(AA, WIFI_AP, ApFields(Cafe, Num(<<"6">>), Num(<<"3">>))),
      Device(BB, WIFI_AP, EmptyDict),
      Device(AA, WIFI_CLIENT, Probed({"Guest"})),
      Device(AA, WIFI_CLIENT, Probed({"Home"})),
      Device(BB, WIFI_CLIENT, Probed({"Guest", "Home"})) }

\* the lines of the files of a whole run
MainLines ==
    { NotJson,
      Json(List),
      Device(AA, WIFI_AP, ApFields(Cafe, Str(<<"6">>), WPA2)),
      Device(AA, WIFI_CLIENT, Probed({"Guest"})) }

(***************************************************************************)
(* Spec: a whole run of main().                                            *)
(***************************************************************************)
Init ==
    /\ pc = "check_command_exists"
    /\ side = "baseline"
    /\ exit_code = <<>>
    /\ tool \in BOOLEAN
    /\ \E b \in BaselineArgs, c \in ComparisonArgs :
          kismet_file = [s \in Sides |-> IF s = "baseline" THEN b ELSE c]
    /\ fs \in SUBSET JsonFiles
    /\ json_file = <<>>
    /\ run_command = TRUE
    /\ overwrite = NoAnswer
    /\ confirm = NoAnswer
    /\ typed = [s \in Sides |-> [use |-> NoAnswer, proceed |-> NoAnswer]]
    /\ executed = [s \in Sides |-> NotRun]
    /\ json_path = EmptyDict
    /\ aps = EmptyDict
    /\ clients = EmptyDict
    /\ probed_ssid_map = EmptyDict
    /\ log = [s \in Sides |-> <<>>]
    /\ parsed = EmptyDict
    /\ output = <<>>

Convert ==
    \/ check_command_exists
    \/ conversion_begin
    \/ \E text \in Typed : ask_use_existing(text)
    \/ \E text \in Typed : ask_proceed(text)
    \/ \E result \in Results, written \in BOOLEAN : run_conversion(result, written)
    \/ conversion_cancelled
    \/ return_json_file

Report ==
    \/ report_new_and_missing
    \/ report_environmental_changes
    \/ report_probed_ssid_analysis

Next ==
    \/ Convert
    \/ parse_open
    \/ \E line \in MainLines : read_line(line, MaxMainLines)
    \/ end_of_file
    \/ Report

Spec == Init /\ [][Next]_vars

(***************************************************************************)
(* The state of main() when both conversion prompts have returned, the     *)
(* user having pressed Enter to use the two existing JSON files.           *)
(***************************************************************************)
InitParse ==
    /\ pc = "parse_kismet_log"
    /\ side = "baseline"
    /\ exit_code = <<>>
    /\ tool = TRUE
    /\ kismet_file = [s \in Sides |->
                        IF s = "baseline" THEN <<"a", ".kismet">> ELSE <<"b", ".kismet">>]
    /\ fs = JsonFiles
    /\ json_file = <<"b", ".json">>
    /\ run_command = FALSE
    /\ overwrite = NoAnswer
    /\ confirm = NoAnswer
    /\ typed = [s \in Sides |-> [use |-> <<>>, proceed |-> NoAnswer]]
    /\ executed = [s \in Sides |-> NotRun]
    /\ json_path = [s \in Sides |->
                      IF s = "baseline" THEN <<"a", ".json">> ELSE <<"b", ".json">>]
    /\ aps = EmptyDict
    /\ clients = EmptyDict
    /\ probed_ssid_map = EmptyDict
    /\ log = [s \in Sides |-> <<>>]
    /\ parsed = EmptyDict
    /\ output = <<>>

(***************************************************************************)
(* SpecBuild: parse_kismet_log on the baseline file, until it returns.     *)
(***************************************************************************)
Building == "baseline" \notin DOMAIN parsed

NextBuild ==
    \/ Building /\ parse_open
    \/ Building /\ \E line \in BuildLines : read_line(line, MaxLines)
    \/ Building /\ end_of_file

SpecBuild == InitParse /\ [][NextBuild]_vars

(***************************************************************************)
(* SpecDiff: the two calls of parse_kismet_log and the three reports.      *)
(***************************************************************************)
NextDiff ==
    \/ parse_open
    \/ \E line \in DiffLines : read_line(line, MaxDiffLines)
    \/ end_of_file
    \/ Report

SpecDiff == InitParse /\ [][NextDiff]_vars

(***************************************************************************)
(* Properties.                                                             *)
(***************************************************************************)
Key(line, key) ==
    IF line.json /\ line.val.t = "dict" /\ key \in DOMAIN line.val.v
    THEN line.val.v[key]
    ELSE None

\* line is a record of the device mac
IsRecordOf(line, mac) == Key(line, "kismet_device_base_macaddr") = mac

\* line is a 'Wi-Fi AP' record of the device mac
IsApRecordOf(line, mac) ==
    IsRecordOf(line, mac) /\ Key(line, "kismet_device_base_type") = WIFI_AP

\* line is a record of mac of another type of the Wi-Fi family
IsClientRecordOf(line, mac) ==
    /\ IsRecordOf(line, mac)
    /\ Key(line, "kismet_device_base_type") \in {WIFI_CLIENT, WIFI_DEVICE}

Baseline == parsed["baseline"]
Comparison == parsed["comparison"]

\* C1: once parse_kismet_log has returned, the probed-name index is exactly the
\* inverse of the final clients mapping, without the empty name: m is in
\* index[n] iff n is non-empty and n is in clients[m].probed_ssids.
C1_IndexIsInverseOfClients ==
    "baseline" \in DOMAIN parsed =>
        \A n \in Names, m \in MACs :
            (n \in DOMAIN Baseline.probes /\ m \in Baseline.probes[n])
            <=> (/\ n # ""
                 /\ m \in DOMAIN Baseline.clients
                 /\ n \in Baseline.clients[m].probed_ssids)

\* C2: the process ends with exit status 0 only when the three report sections
\* were produced; every exit on a setup failure (sys.exit in the tool check, in
\* run_conversion_prompt or in parse_kismet_log) has a non-zero status.
C2_ExitZeroOnlyWhenCompleted ==
    /\ exit_code = <<0>> => Len(output) = 3
    /\ pc = "exit" => exit_code # <<0>>

\* a line that is not valid JSON, or not a mapping, or a mapping without its
\* MAC address or without its type
Malformed(line) ==
    \/ ~line.json
    \/ line.val.t # "dict"
    \/ "kismet_device_base_macaddr" \notin DOMAIN line.val.v
    \/ "kismet_device_base_type" \notin DOMAIN line.val.v

\* C3: reading a malformed line leaves aps, clients and the probed-name index
\* as they were, and the loop goes on to the next line: no exit, no abort.
C3_MalformedLineIsSkipped ==
    [][(log'[side] # log[side] /\ Malformed(log'[side][Len(log'[side])]))
        => /\ aps' = aps
           /\ clients' = clients
           /\ probed_ssid_map' = probed_ssid_map
           /\ pc' = "for_line"
           /\ exit_code' = exit_code]_vars

\* the user was asked the question and declined it
Declined(text) == text # NoAnswer /\ Answer(text) \notin {<<>>, <<"y">>}

\* C4: a report section is printed only when the tool was found, both
\* conversion prompts returned a path and both files were found and parsed;
\* a run that ends in a fatal setup step has printed no report section.
C4_NoReportBeforeSetupSucceeded ==
    /\ output # <<>> =>
         /\ tool
         /\ DOMAIN json_path = Sides
         /\ DOMAIN parsed = Sides
         /\ \A s \in Sides :
              /\ kismet_file[s][Len(kismet_file[s])] = ".kismet"
              /\ executed[s] # "failed"
              /\ ~Declined(typed[s].proceed)
              /\ json_path[s] \in fs
    /\ pc = "exit" => output = <<>>

\* the comparison file failed (not found, or a line that aborts the parser)
\* after the baseline was parsed: nothing was printed
C4_Witness ==
    /\ pc = "exit"
    /\ DOMAIN parsed = {"baseline"}
    /\ output = <<>>

\* C5: a name of the baseline index that no client of the comparison's final
\* clients mapping probes is listed as no longer probed, and a name is listed
\* as newly probed only if a client of that mapping probes it.
C5_ProbedDiffFollowsFinalClients ==
    Len(output) = 3 =>
        \A n \in Names :
            LET probing == {m \in DOMAIN Comparison.clients :
                              n \in Comparison.clients[m].probed_ssids}
            IN  /\ (n \in DOMAIN Baseline.probes /\ probing = {})
                     => n \in output[3].no_longer_probed
                /\ n \in DOMAIN output[3].newly_probed => probing # {}

NoRecordOf(lines, mac) == \A i \in DOMAIN lines : ~IsRecordOf(lines[i], mac)
HasApRecordOf(lines, mac) == \E i \in DOMAIN lines : IsApRecordOf(lines[i], mac)
HasClientRecordOf(lines, mac) == \E i \in DOMAIN lines : IsClientRecordOf(lines[i], mac)

OnlyInNewAps(mac) ==
    /\ mac \in DOMAIN output[1].new_aps
    /\ mac \notin DOMAIN output[1].missing_aps
    /\ mac \notin output[1].new_clients
    /\ mac \notin output[1].missing_clients

\* C6 as stated: a MAC without any record in the baseline log and with an AP
\* record in the comparison log is in the new APs and in none of the other
\* three sets, whatever else the comparison log holds.
C6_NewApNowhereElse ==
    Len(output) >= 1 =>
        \A mac \in MACs :
            (NoRecordOf(log["baseline"], mac) /\ HasApRecordOf(log["comparison"], mac))
            => OnlyInNewAps(mac)

\* C6 amended: the same, for a MAC that has no record of another Wi-Fi type
\* in the comparison log.
C6_NewApNowhereElseUnlessAlsoClient ==
    Len(output) >= 1 =>
        \A mac \in MACs :
            (/\ NoRecordOf(log["baseline"], mac)
             /\ HasApRecordOf(log["comparison"], mac)
             /\ ~HasClientRecordOf(log["comparison"], mac))
            => OnlyInNewAps(mac)

\* AA:AA is an AP of the comparison only, while the baseline holds other devices
C6_Witness ==
    /\ Len(output) >= 1
    /\ log["baseline"] # <<>>
    /\ NoRecordOf(log["baseline"], AA)
    /\ HasApRecordOf(log["comparison"], AA)
    /\ ~HasClientRecordOf(log["comparison"], AA)
    /\ Len(log["comparison"]) = MaxDiffLines

\* C7: for access points and for clients, new and missing are disjoint, and
\* new(A, B) is missing(B, A).
C7_NewMissingDisjointAndSwapped ==
    DOMAIN parsed = Sides =>
        LET A == Baseline
            B == Comparison
        IN  /\ new_aps(A.aps, B.aps) \cap missing_aps(A.aps, B.aps) = {}
            /\ new_aps(A.aps, B.aps) = missing_aps(B.aps, A.aps)
            /\ new_aps(B.aps, A.aps) = missing_aps(A.aps, B.aps)
            /\ new_clients(A.clients, B.clients)
                 \cap missing_clients(A.clients, B.clients) = {}
            /\ new_clients(A.clients, B.clients) = missing_clients(B.clients, A.clients)
            /\ new_clients(B.clients, A.clients) = missing_clients(A.clients, B.clients)

\* one AP is new, another is missing and a client is common to both files
C7_Witness ==
    /\ Len(output) >= 1
    /\ DOMAIN output[1].new_aps # {}
    /\ DOMAIN output[1].missing_aps # {}
    /\ DOMAIN Baseline.clients \cap DOMAIN Comparison.clients # {}

\* the last 'Wi-Fi AP' record of mac among lines
LastAp(lines, mac) ==
    LET S == {i \in DOMAIN lines : IsApRecordOf(lines[i], mac)}
    IN  lines[CHOOSE i \in S : \A j \in S : j <= i].val

Field(device, key, default) ==
    IF key \in DOMAIN device.v THEN device.v[key] ELSE default

\* C8 as stated: the entry of a MAC holds exactly the ssid, channel and crypt
\* fields of the last AP record of that MAC, with the defaults for the fields
\* that record lacks.
C8_LastApRecordWins ==
    "baseline" \in DOMAIN parsed =>
        \A mac \in MACs :
            IF HasApRecordOf(log["baseline"], mac)
            THEN /\ mac \in DOMAIN Baseline.aps
                 /\ LET last == LastAp(log["baseline"], mac) IN
                    Baseline.aps[mac] =
                      [ssid |-> Field(last, "kismet_device_base_name", Str(<<"N/A">>)),
                       channel |-> Field(last, "kismet_common_channel", Str(<<"N/A">>)),
                       crypt |-> Field(last, "dot11_network_crypt_set", Str(<<"Unknown">>))]
            ELSE mac \notin DOMAIN Baseline.aps

\* the text of a field value: a number's digits, a str as it is
Text(x) == [t |-> "str", v |-> x.v]

\* C8 amended: the entry holds the ssid and channel fields of the last AP
\* record of that MAC and the text (str) of its crypt field, with the defaults
\* for the fields that record lacks; nothing of an earlier record survives.
C8_LastApRecordWinsCryptAsText ==
    "baseline" \in DOMAIN parsed =>
        \A mac \in MACs :
            IF HasApRecordOf(log["baseline"], mac)
            THEN /\ mac \in DOMAIN Baseline.aps
                 /\ LET last == LastAp(log["baseline"], mac) IN
                    Baseline.aps[mac] =
                      [ssid |-> Field(last, "kismet_device_base_name", Str(<<"N/A">>)),
                       channel |-> Field(last, "kismet_common_channel", Str(<<"N/A">>)),
                       crypt |-> Text(Field(last, "dot11_network_crypt_set",
                                            Str(<<"Unknown">>)))]
            ELSE mac \notin DOMAIN Baseline.aps

\* two AP records of AA:AA with different fields, the last without any field,
\* and a client record of AA:AA after it
C8_Witness ==
    /\ "baseline" \in DOMAIN parsed
    /\ Len(log["baseline"]) = 3
    /\ IsApRecordOf(log["baseline"][1], AA)
    /\ IsApRecordOf(log["baseline"][2], AA)
    /\ log["baseline"][1].val # log["baseline"][2].val
    /\ DOMAIN log["baseline"][2].val.v
         = {"kismet_device_base_macaddr", "kismet_device_base_type"}
    /\ IsClientRecordOf(log["baseline"][3], AA)

ApFieldNames == {"ssid", "channel", "crypt"}

\* the number of entries of changes that are about field f
EntriesFor(changes, f) == Cardinality({i \in DOMAIN changes : changes[i].field = f})

\* C9: for a MAC of both snapshots _get_ap_changes gives exactly one entry for
\* each of ssid, channel, crypt whose stored values differ and none for the
\* others; the report lists exactly the common MACs with at least one entry,
\* each with those entries, and no MAC of only one snapshot.
C9_OneChangePerDifferingField ==
    Len(output) >= 2 =>
        LET b == Baseline.aps
            c == Comparison.aps
            listed == output[2].ap_changes
        IN  /\ \A mac \in DOMAIN b \cap DOMAIN c, f \in ApFieldNames :
                 EntriesFor(_get_ap_changes(b[mac], c[mac]), f)
                   = IF b[mac][f] # c[mac][f] THEN 1 ELSE 0
            /\ DOMAIN listed \subseteq DOMAIN b \cap DOMAIN c
            /\ \A mac \in DOMAIN b \cap DOMAIN c :
                 mac \in DOMAIN listed <=> \E f \in ApFieldNames : b[mac][f] # c[mac][f]
            /\ \A mac \in DOMAIN listed, f \in ApFieldNames :
                 /\ EntriesFor(listed[mac].changes, f)
                      = IF b[mac][f] # c[mac][f] THEN 1 ELSE 0
                 /\ \A i \in DOMAIN listed[mac].changes :
                      LET ch == listed[mac].changes[i] IN
                      ch.old = b[mac][ch.field] /\ ch.new = c[mac][ch.field]

\* 'Cafe' -> 'Cafe2' with equal channel and crypt: one change, for ssid, while
\* BB:BB is an AP of the baseline only
C9_Witness ==
    /\ Len(output) >= 2
    /\ AA \in DOMAIN output[2].ap_changes
    /\ output[2].ap_changes[AA].changes
         = <<[field |-> "ssid", old |-> Cafe, new |-> Cafe2]>>
    /\ BB \in DOMAIN Baseline.aps
    /\ BB \notin DOMAIN Comparison.aps

NotWhitespace(ch) == ch \notin Whitespace

\* what was typed is, apart from white space around it, nothing or one y or Y
TypedYes(text) ==
    text # NoAnswer /\ SelectSeq(text, NotWhitespace) \in {<<>>, <<"y">>, <<"Y">>}

\* C10: kismet_log_to_json is run only after the user answered "Do you want to
\* proceed?" with an empty line or y (any case, white space trimmed), never
\* when the existing JSON file was accepted, the argument does not end in
\* .kismet or the answer was anything else; and a path is returned only if the
\* existing file was accepted or the command ran without error.
C10_CommandOnlyAfterConfirmation ==
    \A s \in Sides :
        /\ executed[s] # NotRun =>
             /\ TypedYes(typed[s].proceed)
             /\ ~TypedYes(typed[s].use)
             /\ kismet_file[s][Len(kismet_file[s])] = ".kismet"
        /\ (typed[s].proceed # NoAnswer /\ ~TypedYes(typed[s].proceed))
             => executed[s] = NotRun
        /\ s \in DOMAIN json_path =>
             TypedYes(typed[s].use) \/ executed[s] = "ok"

\* the existing file of the baseline was accepted with Enter; for the
\* comparison the existing file was refused, " Y " confirmed the command, the
\* command ran without error and the path was returned
C10_Witness ==
    /\ DOMAIN json_path = Sides
    /\ typed["baseline"].use = <<>>
    /\ executed["baseline"] = NotRun
    /\ typed["comparison"].use = <<"n">>
    /\ typed["comparison"].proceed = <<" ", "Y", "\t">>
    /\ executed["comparison"] = "ok"

====
